---- MODULE Spec2Model ----
(***************************************************************************)
(* Model of the Social Contract application (src/app.py, src/models.py,    *)
(* src/cloudinary_helper.py): check-in, create and join challenge, nudge,  *)
(* achievement evaluator, challenge lifecycle and admin delete.            *)
(*                                                                         *)
(* The database tables are sets of rows; every request handler is a        *)
(* process that reads committed rows into its own session and writes them  *)
(* back with db.session.commit().  Several requests may be in flight at    *)
(* once (one worker per request), so a handler is split at the points      *)
(* where it reads the database, calls the image host, and commits.         *)
(***************************************************************************)
EXTENDS Integers, FiniteSets, Sequences, Bags, TLC

\* ---------------------------------------------------------------- bounds
MaxDay == 1              \* the UTC calendar date runs over 0..MaxDay
MaxCheckins == 2         \* check-in requests are accepted until this many rows were inserted
MaxSeedStreak == 14      \* largest stored streak the calculator is applied to (SpecCalc)
MaxSeedFreezes == 2      \* largest stored freeze balance it is applied to (SpecCalc)
MaxChallenges == 2       \* challenges are created until this many exist
MaxNudges == 1           \* nudges are sent until this many rows exist

\* ------------------------------------------------------ program constants
DefaultPointsPerCheckin == 10
DefaultStreakBonus == 5
FreezeMilestone == 7

\* ---------------------------------------------------------- null values
NoId == 0                \* a NULL foreign key / no row
NoDate == 0 - 100        \* a NULL date, or an absent / malformed client_date
NoUrl == "null"          \* photo_url IS NULL
Url == "url"             \* a URL returned by the image host

Users == {1, 2}          \* registered users: 1 created the challenge, 2 has not joined
Reqs == {1, 2}           \* request workers that may run concurrently

VARIABLES
    now,                 \* current UTC calendar date
    cloudinary_configured, \* app.py:80
    admins,              \* ADMIN_USERNAMES
    users,               \* users table: id -> row
    challenges,          \* challenges table: id -> row
    members,             \* challenge_members table: set of rows
    checkins,            \* checkins table: bag of rows (the surrogate id left out)
    inserted,            \* number of Checkin rows inserted since the initial state
    userAchievements,    \* user_achievements table: set of rows
    notifications,       \* notifications table: bag of [user_id, type, ref]
    nudges,              \* nudges table: set of rows
    reactions,           \* checkin_reactions table: set of rows
    session,             \* session['user_id'] of the browser that signs in with Google
    workers,             \* the worker processes of the deployment
    reqs,                \* the request each worker is serving
    response             \* the response sent by the last step ("none": it sent none)

vars == <<now, cloudinary_configured, admins, workers, users, challenges, members,
          checkins, inserted, userAchievements, notifications, nudges, reactions, session,
          reqs, response>>

db == <<users, challenges, members, checkins, inserted, userAchievements, notifications,
        nudges>>

config == <<cloudinary_configured, admins, workers>>

\* what only the reaction, admin-delete and sign-in handlers write
others == <<reactions, session>>

\* ------------------------------------------------------------- helpers
Max(a, b) == IF a >= b THEN a ELSE b

Abs(a) == IF a >= 0 THEN a ELSE 0 - a

RECURSIVE SumPoints(_)
SumPoints(S) ==
    IF S = {} THEN 0
    ELSE LET m == CHOOSE x \in S : TRUE IN m.points + SumPoints(S \ {m})

RECURSIVE MaxBestStreak(_)
MaxBestStreak(S) ==
    IF S = {} THEN 0
    ELSE LET m == CHOOSE x \in S : TRUE IN Max(m.best_streak, MaxBestStreak(S \ {m}))

\* ------------------------------------------------------------ row shapes
NoMember == [id |-> NoId, challenge_id |-> NoId, user_id |-> NoId, points |-> 0,
             current_streak |-> 0, best_streak |-> 0, streak_freezes |-> 0,
             freezes_used |-> 0]

NewMember(id, c, u) == [NoMember EXCEPT !.id = id, !.challenge_id = c, !.user_id = u]

\* ChallengeMember.query.filter_by(challenge_id=c, user_id=u).first()
MemberRows(c, u) == {m \in members : m.challenge_id = c /\ m.user_id = u}

FirstMember(c, u) ==
    IF MemberRows(c, u) = {} THEN NoMember
    ELSE CHOOSE m \in MemberRows(c, u) : \A o \in MemberRows(c, u) : m.id <= o.id

\* Checkin.query.filter_by(challenge_id=c, user_id=u, checkin_date=d)
CheckinRows(c, u, d) ==
    {k \in BagToSet(checkins) : k.challenge_id = c /\ k.user_id = u /\ k.checkin_date = d}

\* SELECT count(*) FROM checkins WHERE P
RECURSIVE CountRows(_, _)
CountRows(bag, S) ==
    IF S = {} THEN 0
    ELSE LET k == CHOOSE x \in S : TRUE IN bag[k] + CountRows(bag, S \ {k})

\* ------------------------------------------- Time / timezone resolver
\* get_user_today: the date in the user's timezone is the UTC date shifted
\* by at most one day.
TzOffsets == {0}

GetUserToday(off) == now + off

\* the client_date values a request may carry: none (or a malformed one), or
\* a date up to two days behind the server's
ClientDates(off) == {NoDate} \cup ((now + off - 2)..(now + off))

\* checkin, lines 1063-1076: a well-formed client_date within one day of
\* the server's idea of the user's date wins, anything else is ignored.
ResolveToday(user_today, client_date) ==
    IF client_date # NoDate
    THEN IF Abs(user_today - client_date) <= 1 THEN client_date ELSE user_today
    ELSE user_today

\* ------------------------------------------- Streak & points calculator
\* variants of the calculator with a plausible fault each; the properties
\* below must tell them from the calculator
NewStreak_NoFreeze(current_streak, streak_freezes, checked_yesterday) ==
    IF checked_yesterday THEN current_streak + 1 ELSE 1

FreezeUsed_IgnoresYesterday(current_streak, streak_freezes, checked_yesterday) ==
    current_streak > 0 /\ streak_freezes > 0

PointsEarned_BonusTimesStreak(points_per_checkin, streak_bonus, new_streak) ==
    points_per_checkin + streak_bonus * new_streak

FreezeEarned_NoGuard(old_streak, new_streak) ==
    (new_streak \div 7) - (old_streak \div 7)

\* lines 1137-1145
NewStreak_NeverResets(current_streak, streak_freezes, checked_yesterday) ==
    current_streak + 1

NewStreak(current_streak, streak_freezes, checked_yesterday) ==
    IF checked_yesterday THEN current_streak + 1
    ELSE IF current_streak > 0 /\ streak_freezes > 0 THEN current_streak + 1
         ELSE 1

FreezeUsed(current_streak, streak_freezes, checked_yesterday) ==
    IF checked_yesterday THEN FALSE
    ELSE current_streak > 0 /\ streak_freezes > 0

\* lines 1147-1149
PointsEarned(points_per_checkin, streak_bonus, new_streak) ==
    IF new_streak > 1
    THEN points_per_checkin + streak_bonus * (new_streak - 1)
    ELSE points_per_checkin

\* lines 1151-1157
FreezeEarned(old_streak, new_streak) ==
    IF new_streak >= FreezeMilestone
    THEN (new_streak \div FreezeMilestone) - (old_streak \div FreezeMilestone)
    ELSE 0

\* ------------------------------------------------ photo proof (lines 131-160)
NoFile == [ext |-> "", header |-> ""]   \* no 'photo' part, or an empty filename

ALLOWED_EXTENSIONS == {"png", "jpg", "jpeg", "gif", "webp"}

Files == {NoFile, [ext |-> "png", header |-> "png"], [ext |-> "png", header |-> "text"],
          [ext |-> "webp", header |-> "riff_avi"], [ext |-> "exe", header |-> "png"]}

AllowedFile(f) == f.ext \in ALLOWED_EXTENSIONS

\* the header starts with a known signature; RIFF counts only as RIFF....WEBP
ValidateImageFile(f) == f.header \in {"png", "jpg", "gif87", "gif89", "riff_webp"}

\* ----------------------------------------------- achievements (models.py)
Achievements == <<
    [condition_type |-> "total_checkins",     condition_value |-> 1],
    [condition_type |-> "streak",             condition_value |-> 7],
    [condition_type |-> "streak",             condition_value |-> 30],
    [condition_type |-> "streak",             condition_value |-> 50],
    [condition_type |-> "total_points",       condition_value |-> 100],
    [condition_type |-> "total_points",       condition_value |-> 500],
    [condition_type |-> "challenges_joined",  condition_value |-> 3],
    [condition_type |-> "challenges_created", condition_value |-> 1],
    [condition_type |-> "photo_checkins",     condition_value |-> 10] >>

\* check_achievements, lines 284-298
StatMap(u) ==
    [total_checkins     |-> CountRows(checkins, {k \in BagToSet(checkins) : k.user_id = u}),
     streak             |-> MaxBestStreak({m \in members : m.user_id = u}),
     total_points       |-> SumPoints({m \in members : m.user_id = u}),
     challenges_joined  |-> Cardinality({m \in members : m.user_id = u}),
     challenges_created |-> Cardinality({c \in DOMAIN challenges : challenges[c].creator_id = u}),
     photo_checkins     |-> CountRows(checkins, {k \in BagToSet(checkins) :
                                                 k.user_id = u /\ k.photo_url # NoUrl})]

EarnedIds(u) == {ua.achievement_id : ua \in {x \in userAchievements : x.user_id = u}}

\* the evaluator with a strict comparison
ToAward_Strict(u) ==
    {a \in DOMAIN Achievements :
        /\ a \notin EarnedIds(u)
        /\ StatMap(u)[Achievements[a].condition_type] > Achievements[a].condition_value}

\* lines 276-302: the unearned achievements whose statistic reaches the threshold
ToAward(u) ==
    {a \in DOMAIN Achievements :
        /\ a \notin EarnedIds(u)
        /\ StatMap(u)[Achievements[a].condition_type] >= Achievements[a].condition_value}

\* ------------------------------------------------------------ users
\* models.py, lines 13-22: a user row; email and google_id are nullable
NoEmail == <<>>          \* email IS NULL
EmptyEmail == <<"", "">> \* the empty string: a Google profile without an email
\* the address local@domain
Email(local, domain) == <<local, domain>>

Usernames == <<"alice", "bob">>

UserRow(username, email, google_id) ==
    [username |-> username, email |-> email, google_id |-> google_id,
     profile_photo |-> NoUrl, total_points |-> 0]

\* a user registered with a password and no email
NewUser(u) == UserRow(Usernames[u], NoEmail, NoId)

\* ------------------------------------------------------ request workers
IdleReq ==
    [pc |-> "idle", user_id |-> NoId, challenge_id |-> NoId, today |-> NoDate,
     membership |-> NoMember, photo_url |-> NoUrl, checked_yesterday |-> FALSE,
     new_streak |-> 0, points_earned |-> 0, freeze_used |-> FALSE, freeze_earned |-> 0,
     total_points |-> 0, todo |-> {}, target |-> NoId, winner_id |-> NoId,
     to_notify |-> {}, upload_failed |-> FALSE]

SetReq(r, q) == [reqs EXCEPT ![r] = q]

\* --------------------------------------------------- database constraints
\* the table without its unique constraint
UqCheckinDaily_Missing(c, u, d) == TRUE

\* uq_checkin_daily: UNIQUE (challenge_id, user_id, checkin_date)
UqCheckinDaily(c, u, d) == CheckinRows(c, u, d) = {}

\* the table without its unique constraint
UqUserAchievement_Missing(uas, u, a) == TRUE

\* uq_user_achievement: UNIQUE (user_id, achievement_id)
UqUserAchievement(uas, u, a) ==
    ~ \E x \in uas : x.user_id = u /\ x.achievement_id = a

\* the table without its unique constraint
UqChallengeMember_Missing(c, u) == TRUE

\* uq_challenge_member: UNIQUE (challenge_id, user_id)
UqChallengeMember(c, u) == MemberRows(c, u) = {}

\* uq_nudge_daily: UNIQUE (challenge_id, from_user_id, to_user_id, nudge_date)
UqNudgeDaily(row) == row \notin nudges

\* ------------------------------------------------------------ check-in
\* lines 1112-1122: the photo is taken only with an allowed extension; it is
\* uploaded when the image host is configured, and uploaded is the host's
\* answer (a URL, or None on any failure)
Considered(f) == f # NoFile /\ AllowedFile(f)

PhotoUrl(f, uploaded) ==
    IF Considered(f) /\ cloudinary_configured /\ uploaded THEN Url ELSE NoUrl

\* lines 1121-1124: the upload was attempted and the image host returned
\* None; the handler logs a warning and goes on
UploadFailed(f, uploaded) ==
    Considered(f) /\ ValidateImageFile(f) /\ cloudinary_configured /\ ~ uploaded

\* the preconditions with the completion test moved before the membership test
Reject_CompletedFirst(c, u, today, membership, f, uploaded) ==
    IF challenges[c].is_completed THEN "ended"
    ELSE IF membership = NoMember THEN "not_member"
    ELSE IF CheckinRows(c, u, today) # {} THEN "already"
    ELSE IF Considered(f) /\ ~ ValidateImageFile(f) THEN "invalid_image"
    ELSE IF challenges[c].verification_type = "photo_required"
            /\ PhotoUrl(f, uploaded) = NoUrl
         THEN "photo_required"
    ELSE "none"

\* the preconditions without the test that a required photo was stored
Reject_PhotoUnchecked(c, u, today, membership, f, uploaded) ==
    IF membership = NoMember THEN "not_member"
    ELSE IF challenges[c].is_completed THEN "ended"
    ELSE IF CheckinRows(c, u, today) # {} THEN "already"
    ELSE IF Considered(f) /\ ~ ValidateImageFile(f) THEN "invalid_image"
    ELSE "none"

\* lines 1087-1130: the preconditions, in the order the handler tests them
Reject(c, u, today, membership, f, uploaded) ==
    IF membership = NoMember THEN "not_member"
    ELSE IF challenges[c].is_completed THEN "ended"
    ELSE IF CheckinRows(c, u, today) # {} THEN "already"
    ELSE IF Considered(f) /\ ~ ValidateImageFile(f) THEN "invalid_image"
    ELSE IF challenges[c].verification_type = "photo_required"
            /\ PhotoUrl(f, uploaded) = NoUrl
         THEN "photo_required"
    ELSE "none"

\* lines 1057-1130: resolve the date, load the membership, run the
\* preconditions and upload the photo.  The membership object stays in the
\* session as it was read here.  The upload touches no table, so it is
\* taken in the same step as the reads before it.
Begin(r, u, c, off, client_date, f, uploaded) ==
    /\ r \in workers
    /\ reqs[r].pc = "idle"
    /\ r = 1 \/ reqs[1].pc # "idle"
    /\ inserted + Cardinality({w \in Reqs : reqs[w].pc \in {"commit", "flush"}}) < MaxCheckins
    /\ LET today == ResolveToday(GetUserToday(off), client_date)
           membership == FirstMember(c, u)
           reject == Reject(c, u, today, membership, f, uploaded)
       IN IF reject # "none"
          THEN reqs' = reqs /\ response' = reject
          ELSE /\ reqs' = SetReq(r, [IdleReq EXCEPT !.pc = "commit",
                                                    !.user_id = u,
                                                    !.challenge_id = c,
                                                    !.today = today,
                                                    !.membership = membership,
                                                    !.photo_url = PhotoUrl(f, uploaded),
                                                    !.upload_failed =
                                                        UploadFailed(f, uploaded)])
               /\ response' = "none"
    /\ UNCHANGED <<now, config, others, db>>

\* lines 1132-1157: yesterday's row and the calculator, applied to the
\* membership as the session loaded it
Calculated(q) ==
    LET ch == challenges[q.challenge_id]
        m == q.membership
        checked_yesterday == CheckinRows(q.challenge_id, q.user_id, q.today - 1) # {}
        new_streak == NewStreak(m.current_streak, m.streak_freezes, checked_yesterday)
    IN [q EXCEPT !.checked_yesterday = checked_yesterday,
                 !.new_streak = new_streak,
                 !.freeze_used = FreezeUsed(m.current_streak, m.streak_freezes,
                                            checked_yesterday),
                 !.points_earned = PointsEarned(ch.points_per_checkin,
                                                ch.streak_bonus, new_streak),
                 !.freeze_earned = FreezeEarned(m.current_streak, new_streak),
                 !.total_points = users[q.user_id].total_points]

\* lines 1159-1166
NewCheckin(q) ==
    [challenge_id |-> q.challenge_id, user_id |-> q.user_id,
     checkin_date |-> q.today, photo_url |-> q.photo_url]

\* the membership update with best_streak overwritten instead of max()
UpdatedMembership_BestOverwritten(q) ==
    LET m == q.membership IN
    [m EXCEPT !.points = m.points + q.points_earned,
              !.current_streak = q.new_streak,
              !.best_streak = q.new_streak,
              !.streak_freezes = Max(0, m.streak_freezes + q.freeze_earned
                                        - (IF q.freeze_used THEN 1 ELSE 0)),
              !.freezes_used = IF q.freeze_used THEN m.freezes_used + 1
                               ELSE m.freezes_used]

\* the membership update spending a freeze on every check-in, unclamped
UpdatedMembership_AlwaysSpends(q) ==
    LET m == q.membership IN
    [m EXCEPT !.points = m.points + q.points_earned,
              !.current_streak = q.new_streak,
              !.best_streak = Max(m.best_streak, q.new_streak),
              !.streak_freezes = m.streak_freezes + q.freeze_earned - 1,
              !.freezes_used = m.freezes_used + 1]

\* lines 1169-1175
\* a membership update that spends a freeze without counting it
UpdatedMembership_SpentUncounted(q) ==
    LET m == q.membership IN
    [m EXCEPT !.points = m.points + q.points_earned,
              !.current_streak = q.new_streak,
              !.best_streak = Max(m.best_streak, q.new_streak),
              !.streak_freezes = Max(0, m.streak_freezes + q.freeze_earned
                                        - (IF q.freeze_used THEN 1 ELSE 0))]

UpdatedMembership(q) ==
    LET m == q.membership IN
    [m EXCEPT !.points = m.points + q.points_earned,
              !.current_streak = q.new_streak,
              !.best_streak = Max(m.best_streak, q.new_streak),
              !.streak_freezes = Max(0, m.streak_freezes + q.freeze_earned
                                        - (IF q.freeze_used THEN 1 ELSE 0)),
              !.freezes_used = IF q.freeze_used THEN m.freezes_used + 1
                               ELSE m.freezes_used]

\* a handler that commits the Checkin row in a transaction of its own and
\* leaves the membership and user writes to a later one
Commit_RowOnly(r) ==
    /\ reqs[r].pc = "commit"
    /\ LET q == Calculated(reqs[r]) IN
       IF UqCheckinDaily(q.challenge_id, q.user_id, q.today)
       THEN /\ checkins' = checkins (+) SetToBag({NewCheckin(q)})
            /\ inserted' = inserted + 1
            /\ reqs' = SetReq(r, [q EXCEPT !.pc = "ach"])
            /\ response' = "none"
            /\ UNCHANGED <<members, users>>
       ELSE /\ reqs' = SetReq(r, IdleReq)
            /\ response' = "error500"
            /\ UNCHANGED <<checkins, inserted, members, users>>
    /\ UNCHANGED <<now, config, others, challenges, userAchievements, notifications, nudges>>

\* lines 1132-1181: the calculation and the one commit that writes the Checkin row, the membership and
\* the user total.  A row that breaks uq_checkin_daily raises IntegrityError,
\* which no handler catches: the session is rolled back and the request
\* ends in the 500 handler.
Commit(r) ==
    /\ reqs[r].pc = "commit"
    /\ LET q == Calculated(reqs[r]) IN
       IF UqCheckinDaily(q.challenge_id, q.user_id, q.today)
       THEN /\ checkins' = checkins (+) SetToBag({NewCheckin(q)})
            /\ inserted' = inserted + 1
            /\ members' = {IF m.id = q.membership.id THEN UpdatedMembership(q) ELSE m
                           : m \in members}
            /\ users' = [users EXCEPT ![q.user_id].total_points =
                                          q.total_points + q.points_earned]
            /\ reqs' = SetReq(r, [q EXCEPT !.pc = "ach"])
            /\ response' = "none"
       ELSE /\ reqs' = SetReq(r, IdleReq)
            /\ response' = "error500"
            /\ UNCHANGED <<checkins, inserted, members, users>>
    /\ UNCHANGED <<now, config, others, challenges, userAchievements, notifications, nudges>>

\* The same handler step by step, for requests that run side by side.
\* Lines 1133-1178: yesterday's row and the user are read into the session
\* and the new values are computed from them; nothing is written yet.
Calculate(r) ==
    /\ reqs[r].pc = "commit"
    /\ reqs' = SetReq(r, [Calculated(reqs[r]) EXCEPT !.pc = "flush"])
    /\ response' = "none"
    /\ UNCHANGED <<now, config, others, db>>

\* Line 1181: the commit writes the values computed from what was read: the
\* UPDATEs carry absolute values, no row is locked or versioned.
Flush(r) ==
    /\ reqs[r].pc = "flush"
    /\ LET q == reqs[r] IN
       IF UqCheckinDaily(q.challenge_id, q.user_id, q.today)
       THEN /\ checkins' = checkins (+) SetToBag({NewCheckin(q)})
            /\ inserted' = inserted + 1
            /\ members' = {IF m.id = q.membership.id THEN UpdatedMembership(q) ELSE m
                           : m \in members}
            /\ users' = [users EXCEPT ![q.user_id].total_points =
                                          q.total_points + q.points_earned]
            /\ reqs' = SetReq(r, [q EXCEPT !.pc = "ach"])
            /\ response' = "none"
       ELSE /\ reqs' = SetReq(r, IdleReq)
            /\ response' = "error500"
            /\ UNCHANGED <<checkins, inserted, members, users>>
    /\ UNCHANGED <<now, config, others, challenges, userAchievements, notifications, nudges>>

\* ----------------------------------------------------------- notifications
\* create_notification, lines 257-267
Notif(user_id, type, ref) == [user_id |-> user_id, type |-> type, ref |-> ref]

\* ------------------------------------------------- achievement evaluator
\* lines 300-315: one UserAchievement and one notification per award, each
\* pair committed by create_notification; a row that breaks
\* uq_user_achievement raises IntegrityError and ends the loop.
RECURSIVE AwardLoop(_, _, _, _)
AwardLoop(u, todo, uas, notifs) ==
    IF todo = {} THEN [uas |-> uas, notifs |-> notifs, ok |-> TRUE]
    ELSE LET a == CHOOSE x \in todo : \A y \in todo : x <= y IN
         IF UqUserAchievement(uas, u, a)
         THEN AwardLoop(u, todo \ {a},
                        uas \cup {[id |-> Cardinality(uas) + 1, user_id |-> u,
                                   achievement_id |-> a]},
                        notifs (+) SetToBag({Notif(u, "achievement_earned", a)}))
         ELSE [uas |-> uas, notifs |-> notifs, ok |-> FALSE]

\* line 1183 with check_achievements, lines 270-315, and the response,
\* lines 1185-1204
CheckAchievements(r) ==
    /\ reqs[r].pc = "ach"
    /\ LET q == reqs[r]
           out == AwardLoop(q.user_id, ToAward(q.user_id), userAchievements, notifications)
       IN /\ userAchievements' = out.uas
          /\ notifications' = out.notifs
          /\ reqs' = SetReq(r, IdleReq)
          /\ response' = IF out.ok THEN "ok" ELSE "error500"
    /\ UNCHANGED <<now, config, others, users, challenges, members, checkins, inserted, nudges>>

\* the handler is interrupted (worker killed, connection lost): whatever
\* the session holds uncommitted is rolled back
Crash(r) ==
    /\ reqs[r].pc # "idle"
    /\ reqs' = SetReq(r, IdleReq)
    /\ response' = "none"
    /\ UNCHANGED <<now, config, others, db>>

\* ------------------------------------------------------ challenge lifecycle
MembersOf(c) == {m \in members : m.challenge_id = c}

\* lines 329-331, a winner row that is merely some member
IsWinnerRow_AnyMember(c, w) ==
    IF MembersOf(c) = {} THEN w = NoMember ELSE w \in MembersOf(c)

\* lines 329-331: order_by(points desc).first(); rows with equal points
\* come in no defined order
IsWinnerRow(c, w) ==
    IF MembersOf(c) = {} THEN w = NoMember
    ELSE w \in MembersOf(c) /\ \A m \in MembersOf(c) : w.points >= m.points

\* lines 323-327: the user's challenges that are past their end date
Ended(u, today) ==
    {c \in DOMAIN challenges :
        /\ MemberRows(c, u) # {}
        /\ challenges[c].end_date # NoDate
        /\ challenges[c].end_date < today
        /\ ~ challenges[c].is_completed}

\* lines 340-346: one notification per member row of every finalized challenge
CompletedNotifs(cs) ==
    LET keys == {Notif(m.user_id, "challenge_completed", m.challenge_id) :
                    m \in {x \in members : x.challenge_id \in cs}}
    IN [k \in keys |-> Cardinality({m \in members : m.user_id = k.user_id
                                                    /\ m.challenge_id = k.ref})]

\* dashboard, lines 673-679, with check_completed_challenges, lines 318-348
Dashboard(u, off) ==
    /\ LET cs == Ended(u, GetUserToday(off)) IN
       \E w \in [cs -> members \cup {NoMember}] :
          /\ \A c \in cs : IsWinnerRow(c, w[c])
          /\ challenges' = [c \in DOMAIN challenges |->
                              IF c \in cs
                              THEN [challenges[c] EXCEPT !.is_completed = TRUE,
                                                         !.winner_id = w[c].user_id]
                              ELSE challenges[c]]
          /\ notifications' = notifications (+) CompletedNotifs(cs)
    /\ response' = "none"
    /\ UNCHANGED <<now, config, others, users, members, checkins, inserted,
                   userAchievements, nudges, reqs>>

\* ------------------------------------------- challenge lifecycle, by step
\* line 327: the end date has passed for the user's today
PastEnd_DayLate(ch, today) == ch.end_date # NoDate /\ ch.end_date < today - 1

PastEnd(ch, today) == ch.end_date # NoDate /\ ch.end_date < today

\* line 340: challenge.members, the users to notify
ToNotify_WinnerOnly(c, w) == {m.user_id : m \in {x \in MembersOf(c) : x = w}}

ToNotify(c, w) == {m.user_id : m \in MembersOf(c)}

\* lines 320-323: the user's today and the user's memberships are read
LifeStart(r, u, off) ==
    /\ r \in workers
    /\ reqs[r].pc = "idle"
    /\ r = 1 \/ reqs[1].pc # "idle"
    /\ LET todo == {c \in DOMAIN challenges : MemberRows(c, u) # {}} IN
       IF todo = {}
       THEN reqs' = reqs /\ response' = "dashboard"
       ELSE /\ reqs' = SetReq(r, [IdleReq EXCEPT !.pc = "life", !.user_id = u,
                                                 !.today = GetUserToday(off),
                                                 !.todo = todo])
            /\ response' = "none"
    /\ UNCHANGED <<now, config, others, db>>

\* lines 325-340, one turn of the loop up to the first notification: the
\* challenge is loaded afresh (every commit expires the session) and tested;
\* for an ended one the winner and the members are read, and is_completed
\* and winner_id are set in the session, not yet committed.  The
\* memberships come in no defined order.
LifeCheck(r) ==
    /\ reqs[r].pc = "life"
    /\ \E c \in reqs[r].todo :
          LET q == reqs[r]
              rest == q.todo \ {c}
          IN IF PastEnd(challenges[c], q.today) /\ ~ challenges[c].is_completed
             THEN \E w \in members \cup {NoMember} :
                     /\ IsWinnerRow(c, w)
                     /\ reqs' = SetReq(r, [q EXCEPT !.pc = "complete",
                                                    !.challenge_id = c,
                                                    !.todo = rest,
                                                    !.winner_id = w.user_id,
                                                    !.to_notify = ToNotify(c, w)])
                     /\ response' = "none"
             ELSE IF rest = {}
                  THEN reqs' = SetReq(r, IdleReq) /\ response' = "dashboard"
                  ELSE reqs' = SetReq(r, [q EXCEPT !.todo = rest]) /\ response' = "none"
    /\ UNCHANGED <<now, config, others, db>>

\* lines 340-346, one turn of the inner loop: create_notification commits
\* the notification, and with the first one the challenge's is_completed
\* and winner_id (an UPDATE by primary key, whatever the row holds by then)
LifeNotify(r) ==
    /\ reqs[r].pc \in {"complete", "notify"}
    /\ LET q == reqs[r] IN
       \E u \in q.to_notify :
          LET rest == q.to_notify \ {u} IN
          /\ challenges' = IF q.pc = "complete"
                           THEN [challenges EXCEPT ![q.challenge_id] =
                                    [@ EXCEPT !.is_completed = TRUE,
                                              !.winner_id = q.winner_id]]
                           ELSE challenges
          /\ notifications' = notifications (+) SetToBag(
                                 {Notif(u, "challenge_completed", q.challenge_id)})
          /\ IF rest # {}
             THEN /\ reqs' = SetReq(r, [q EXCEPT !.pc = "notify", !.to_notify = rest])
                  /\ response' = "none"
             ELSE IF q.todo # {}
                  THEN /\ reqs' = SetReq(r, [q EXCEPT !.pc = "life", !.to_notify = {}])
                       /\ response' = "none"
                  ELSE reqs' = SetReq(r, IdleReq) /\ response' = "dashboard"
    /\ UNCHANGED <<now, config, others, users, members, checkins, inserted, userAchievements,
                   nudges>>

\* -------------------------------------------------------- admin delete
\* is_admin, lines 1633-1636
IsAdmin(u) == u \in admins

\* lines 1646-1647: the reactions tied to a check-in
ReactionsOf(k) == {x \in reactions : x.checkin = k}

\* an admin delete that tests the role after deleting
NukeCheckin_DeletesAnyway(u, k) ==
    /\ k \in BagToSet(checkins)
    /\ checkins' = checkins (-) SetToBag({k})
    /\ reactions' = reactions \ ReactionsOf(k)
    /\ response' = IF IsAdmin(u) THEN "deleted" ELSE "unauthorized"
    /\ UNCHANGED <<now, config, session, users, challenges, members, inserted,
                   userAchievements, notifications, nudges, reqs>>

\* an admin delete that clears the whole reactions table
NukeCheckin_AllReactions(u, k) ==
    /\ k \in BagToSet(checkins)
    /\ checkins' = IF IsAdmin(u) THEN checkins (-) SetToBag({k}) ELSE checkins
    /\ reactions' = IF IsAdmin(u) THEN {} ELSE reactions
    /\ response' = IF IsAdmin(u) THEN "deleted" ELSE "unauthorized"
    /\ UNCHANGED <<now, config, session, users, challenges, members, inserted,
                   userAchievements, notifications, nudges, reqs>>

\* nuke_checkin, lines 1639-1656
NukeCheckin(u, k) ==
    /\ k \in BagToSet(checkins)
    /\ checkins' = IF IsAdmin(u) THEN checkins (-) SetToBag({k}) ELSE checkins
    /\ reactions' = IF IsAdmin(u) THEN reactions \ ReactionsOf(k) ELSE reactions
    /\ response' = IF IsAdmin(u) THEN "deleted" ELSE "unauthorized"
    /\ UNCHANGED <<now, config, session, users, challenges, members, inserted,
                   userAchievements, notifications, nudges, reqs>>

\* ------------------------------------------------------------- reactions
\* react_to_checkin, line 1219: one of the four allowed reactions
ReactionKinds == {"thumbs_up"}

\* react_to_checkin, lines 1210-1246: the reaction is a toggle
React(u, k, reaction) ==
    /\ k \in BagToSet(checkins)
    /\ LET row == [checkin |-> k, user_id |-> u, reaction |-> reaction] IN
       reactions' = IF row \in reactions THEN reactions \ {row} ELSE reactions \cup {row}
    /\ response' = "reacted"
    /\ UNCHANGED <<now, config, session, db, reqs>>

\* ------------------------------------------------------- Google sign-in
MaxUsers == 3            \* accounts the users table may hold

GoogleIds == {1, 2}      \* the subject ids Google reports

\* the profiles Google may report: subject id and email
Locals == {"alice", "Alice", "al"}
Domains == {"home.org", "evil.com"}
ProfileEmails == {Email(l, dm) : l \in Locals, dm \in Domains} \cup {EmptyEmail}

\* str.lower() on the local parts of the model
Lower(s) == IF s = "Alice" THEN "alice" ELSE s

\* line 628: email.split('@')[0].lower()
LocalPart(email) == Lower(email[1])

\* lines 644-647: the characters outside [a-z0-9_] are dropped (the local
\* parts of the model hold none once lowered), fewer than 3 are left: 'user'
BaseUsername(email) ==
    IF email = EmptyEmail \/ Len(LocalPart(email)) < 3 THEN "user" ELSE LocalPart(email)

\* lines 649-652: the base name, or the base name with four random digits
\* when it is taken (one draw of the digits is modelled)
WithSuffix(base) ==
    CASE base = "alice" -> "alice_4821"
      [] base = "bob" -> "bob_4821"
      [] OTHER -> "user_4821"

\* line 615: the account that already carries this Google identity
Returning(google_id) == {u \in DOMAIN users : users[u].google_id = google_id}

\* lines 626-629: the accounts the linking query may return; .first() takes
\* any one of them (the query has no ORDER BY)
Matching(email) ==
    IF email = EmptyEmail THEN {}
    ELSE {u \in DOMAIN users : \/ users[u].email = email
                               \/ users[u].username = LocalPart(email)}

\* the unique index on users.email: another row already holds the value
EmailTaken(email, u) ==
    \E v \in DOMAIN users \ {u} : users[v].email = email /\ email # NoEmail

\* auth_google_callback, lines 589-670, from the profile on (line 606)
AuthGoogleCallback(google_id, email) ==
    /\ \/ \* Case 1, lines 615-623: a returning Google user
          /\ Returning(google_id) # {}
          /\ session' = CHOOSE u \in Returning(google_id) : TRUE
          /\ response' = "logged_in"
          /\ users' = users
       \/ \* Case 2, lines 626-641: the identity is linked to an existing account
          /\ Returning(google_id) = {}
          /\ \E existing_user \in Matching(email) :
                /\ users[existing_user].google_id = NoId
                /\ LET kept == users[existing_user].email
                       new_email == IF kept \in {NoEmail, EmptyEmail} THEN email ELSE kept IN
                   IF EmailTaken(new_email, existing_user)
                   THEN \* IntegrityError at the commit of line 633: nothing is caught
                        /\ response' = "error"
                        /\ UNCHANGED <<users, session>>
                   ELSE /\ users' = [users EXCEPT ![existing_user].google_id = google_id,
                                                  ![existing_user].email = new_email]
                        /\ session' = existing_user
                        /\ response' = "linked"
       \/ \* Case 3, lines 643-670: a new account
          /\ Returning(google_id) = {}
          /\ \/ Matching(email) = {}
             \/ \E existing_user \in Matching(email) : users[existing_user].google_id # NoId
          /\ Cardinality(DOMAIN users) < MaxUsers
          /\ LET base_username == BaseUsername(email)
                 taken(name) == \E v \in DOMAIN users : users[v].username = name
                 username == IF taken(base_username) THEN WithSuffix(base_username)
                             ELSE base_username
                 id == Cardinality(DOMAIN users) + 1 IN
             /\ ~ taken(username)
             /\ IF EmailTaken(email, NoId)
                THEN \* IntegrityError at the commit of line 661
                     /\ response' = "error"
                     /\ UNCHANGED <<users, session>>
                ELSE /\ users' = [u \in DOMAIN users \cup {id} |->
                                    IF u = id THEN UserRow(username, email, google_id)
                                    ELSE users[u]]
                     /\ session' = id
                     /\ response' = "created"
    /\ UNCHANGED <<now, config, reactions, challenges, members, checkins, inserted,
                   userAchievements, notifications, nudges, reqs>>

\* a new challenge row, lines 810-821
ChallengeRow(creator, verification_type, end_date) ==
    [creator_id |-> creator,
     points_per_checkin |-> DefaultPointsPerCheckin,
     streak_bonus |-> DefaultStreakBonus,
     verification_type |-> verification_type,
     end_date |-> end_date,
     is_completed |-> FALSE,
     winner_id |-> NoId]

\* ------------------------------------------- achievement evaluator, by step
\* lines 271-298: the unearned achievements and the statistics are read
AchRead(r) ==
    /\ reqs[r].pc = "ach"
    /\ LET todo == ToAward(reqs[r].user_id) IN
       IF todo = {}
       THEN reqs' = SetReq(r, IdleReq) /\ response' = "ok"
       ELSE /\ reqs' = SetReq(r, [reqs[r] EXCEPT !.pc = "award", !.todo = todo])
            /\ response' = "none"
    /\ UNCHANGED <<now, config, others, db>>

\* lines 300-313, one turn of the loop: the UserAchievement and its
\* notification are committed together by create_notification; a row that
\* breaks uq_user_achievement raises IntegrityError, which nothing catches
AchAward(r) ==
    /\ reqs[r].pc = "award"
    /\ LET q == reqs[r]
           a == CHOOSE x \in q.todo : \A y \in q.todo : x <= y
       IN IF UqUserAchievement(userAchievements, q.user_id, a)
          THEN /\ userAchievements' = userAchievements \cup
                      {[id |-> Cardinality(userAchievements) + 1, user_id |-> q.user_id,
                        achievement_id |-> a]}
               /\ notifications' = notifications
                                   (+) SetToBag({Notif(q.user_id, "achievement_earned", a)})
               /\ IF q.todo = {a}
                  THEN reqs' = SetReq(r, IdleReq) /\ response' = "ok"
                  ELSE /\ reqs' = SetReq(r, [q EXCEPT !.todo = q.todo \ {a}])
                       /\ response' = "none"
          ELSE /\ reqs' = SetReq(r, IdleReq)
               /\ response' = "error500"
               /\ UNCHANGED <<userAchievements, notifications>>
    /\ UNCHANGED <<now, config, others, users, challenges, members, checkins, inserted, nudges>>

\* ------------------------------------------------------ create challenge
\* create_challenge, lines 793-829: an end date must lie after the user's
\* today; the challenge and its creator's membership are committed together
CreateChallenge(r, u, off, end_date) ==
    /\ r \in workers
    /\ reqs[r].pc = "idle"
    /\ r = 1 \/ reqs[1].pc # "idle"
    /\ Cardinality(DOMAIN challenges) < MaxChallenges
    /\ IF end_date # NoDate /\ end_date <= GetUserToday(off)
       THEN /\ response' = "invalid_end_date"
            /\ UNCHANGED <<challenges, members, reqs>>
       ELSE LET c == Cardinality(DOMAIN challenges) + 1 IN
            /\ challenges' = [x \in DOMAIN challenges \cup {c} |->
                                IF x = c THEN ChallengeRow(u, "none", end_date)
                                ELSE challenges[x]]
            /\ members' = members \cup {NewMember(Cardinality(members) + 1, c, u)}
            /\ reqs' = SetReq(r, [IdleReq EXCEPT !.pc = "ach", !.user_id = u,
                                                 !.challenge_id = c])
            /\ response' = "none"
    /\ UNCHANGED <<now, config, others, users, checkins, inserted, userAchievements,
                   notifications, nudges>>

\* --------------------------------------------------------- join challenge
\* a join code names its challenge; NoId stands for a code of no challenge
JoinCodes == DOMAIN challenges \cup {NoId}

\* join_challenge, lines 849-861 (POST) and 883-893 (GET, the magic link)
JoinReject(u, code, method) ==
    IF method = "POST"
    THEN IF code \notin DOMAIN challenges THEN "invalid_code"
         ELSE IF challenges[code].is_completed THEN "ended"
         ELSE IF MemberRows(code, u) # {} THEN "already_member"
         ELSE "none"
    ELSE IF code \notin DOMAIN challenges THEN "form"
         ELSE IF MemberRows(code, u) # {} THEN "redirect"
         ELSE IF challenges[code].is_completed THEN "form"
         ELSE "none"

JoinLookup(r, u, code, method) ==
    /\ r \in workers
    /\ reqs[r].pc = "idle"
    /\ r = 1 \/ reqs[1].pc # "idle"
    /\ LET reject == JoinReject(u, code, method) IN
       IF reject # "none"
       THEN reqs' = reqs /\ response' = reject
       ELSE /\ reqs' = SetReq(r, [IdleReq EXCEPT !.pc = "join", !.user_id = u,
                                                 !.challenge_id = code])
            /\ response' = "none"
    /\ UNCHANGED <<now, config, others, db>>

\* lines 863-868 and 896-901: the membership row is committed; a row that
\* breaks uq_challenge_member raises IntegrityError, which nothing catches
JoinCommit(r) ==
    /\ reqs[r].pc = "join"
    /\ LET q == reqs[r] IN
       IF UqChallengeMember(q.challenge_id, q.user_id)
       THEN /\ members' = members \cup
                   {NewMember(Cardinality(members) + 1, q.challenge_id, q.user_id)}
            /\ reqs' = SetReq(r, [q EXCEPT !.pc =
                           IF challenges[q.challenge_id].creator_id # q.user_id
                           THEN "joined" ELSE "ach"])
            /\ response' = "none"
       ELSE /\ reqs' = SetReq(r, IdleReq)
            /\ response' = "error500"
            /\ UNCHANGED members
    /\ UNCHANGED <<now, config, others, users, challenges, checkins, inserted, userAchievements,
                   notifications, nudges>>

\* lines 870-876 and 903-909: the creator is told, in a commit of its own
JoinNotify(r) ==
    /\ reqs[r].pc = "joined"
    /\ notifications' = notifications (+) SetToBag(
           {Notif(challenges[reqs[r].challenge_id].creator_id, "challenge_activity",
                  reqs[r].challenge_id)})
    /\ reqs' = SetReq(r, [reqs[r] EXCEPT !.pc = "ach"])
    /\ response' = "none"
    /\ UNCHANGED <<now, config, others, users, challenges, members, checkins, inserted,
                   userAchievements, nudges>>

\* ------------------------------------------------------------------ nudge
NudgeRow(c, from, to, d) ==
    [challenge_id |-> c, from_user_id |-> from, to_user_id |-> to, nudge_date |-> d]

\* nudge_user, lines 1290-1317
NudgeReject(u, c, target, today) ==
    IF target = u THEN "cant_nudge_self"
    ELSE IF MemberRows(c, u) = {} \/ MemberRows(c, target) = {} THEN "invalid_member"
    ELSE IF CheckinRows(c, target, today) # {} THEN "already_checked_in"
    ELSE IF NudgeRow(c, u, target, today) \in nudges THEN "already_nudged"
    ELSE "none"

NudgeLookup(r, u, c, target, off) ==
    /\ r \in workers
    /\ reqs[r].pc = "idle"
    /\ r = 1 \/ reqs[1].pc # "idle"
    /\ LET today == GetUserToday(off)
           reject == NudgeReject(u, c, target, today)
       IN IF reject # "none"
          THEN reqs' = reqs /\ response' = reject
          ELSE /\ Cardinality(nudges) + Cardinality({w \in Reqs : reqs[w].pc = "nudge"})
                     < MaxNudges
               /\ reqs' = SetReq(r, [IdleReq EXCEPT !.pc = "nudge", !.user_id = u,
                                                    !.challenge_id = c, !.target = target,
                                                    !.today = today])
               /\ response' = "none"
    /\ UNCHANGED <<now, config, others, db>>

\* lines 1319-1346: the Nudge row and the notification are committed together
NudgeCommit(r) ==
    /\ reqs[r].pc = "nudge"
    /\ LET q == reqs[r]
           row == NudgeRow(q.challenge_id, q.user_id, q.target, q.today)
       IN IF UqNudgeDaily(row)
          THEN /\ nudges' = nudges \cup {row}
               /\ notifications' = notifications
                                   (+) SetToBag({Notif(q.target, "nudge", q.challenge_id)})
               /\ response' = "nudged"
          ELSE /\ response' = "error500"
               /\ UNCHANGED <<nudges, notifications>>
    /\ reqs' = SetReq(r, IdleReq)
    /\ UNCHANGED <<now, config, others, users, challenges, members, checkins, inserted,
                   userAchievements>>

\* ---------------------------------------------------------- profile photo
\* upload_profile_photo_route, lines 1492-1516: the tests before the write
ProfilePhotoReject(f, uploaded) ==
    IF f = NoFile THEN "no_file"
    ELSE IF ~ AllowedFile(f) THEN "invalid_type"
    ELSE IF ~ ValidateImageFile(f) THEN "invalid_image"
    ELSE IF ~ cloudinary_configured THEN "not_configured"
    ELSE IF ~ uploaded THEN "upload_failed"
    ELSE "none"

\* upload_profile_photo_route, lines 1489-1525
UploadProfilePhoto(u, f, uploaded) ==
    /\ LET reject == ProfilePhotoReject(f, uploaded) IN
       IF reject # "none"
       THEN users' = users /\ response' = reject
       ELSE /\ users' = [users EXCEPT ![u].profile_photo = Url]
            /\ response' = "photo_updated"
    /\ UNCHANGED <<now, config, others, challenges, members, checkins, inserted,
                   userAchievements, notifications, nudges, reqs>>

\* ------------------------------------------------------------------ time
Tick ==
    /\ now < MaxDay
    /\ now' = now + 1
    /\ response' = "none"
    /\ UNCHANGED <<config, others, db, reqs>>

\* ------------------------------------------------------------ initial state
\* create_challenge, lines 810-829: the challenge row, its creator as first
\* member, and the creator's 'Challenge Creator' achievement
InitCommon ==
    /\ now = 0
    /\ inserted = 0
    /\ userAchievements = {[id |-> 1, user_id |-> 1, achievement_id |-> 8]}
    /\ notifications = SetToBag({Notif(1, "achievement_earned", 8)})
    /\ nudges = {}
    /\ reqs = [r \in Reqs |-> IdleReq]
    /\ reactions = {}
    /\ session = NoId
    /\ response = "none"

\* user 1 has created challenge 1, which ends today; user 2 is registered
\* and is the admin
Init ==
    /\ workers = Reqs
    /\ admins = {2}
    /\ \E vt \in {"none", "photo_required"} :
          /\ challenges = [c \in {1} |-> ChallengeRow(1, vt, 0)]
          /\ cloudinary_configured \in (IF vt = "none" THEN {FALSE} ELSE BOOLEAN)
    /\ users = [u \in Users |-> NewUser(u)]
    /\ members = {NewMember(1, 1, 1)}
    /\ checkins = EmptyBag
    /\ InitCommon

Next ==
    \/ \E r \in Reqs, u \in Users, c \in DOMAIN challenges, off \in TzOffsets :
          \E cd \in ClientDates(off), f \in Files, uploaded \in BOOLEAN :
             Begin(r, u, c, off, cd, f, uploaded)
    \/ \E r \in Reqs : Commit(r)
    \/ \E r \in Reqs : CheckAchievements(r)
    \/ \E r \in Reqs : Crash(r)
    \/ \E u \in Users, off \in TzOffsets : Dashboard(u, off)
    \/ \E u \in Users, k \in BagToSet(checkins) : NukeCheckin(u, k)
    \/ Tick

Spec == Init /\ [][Next]_vars

\* The calculator over its input domain: one worker, and the membership the
\* handler loads holds any streak and freeze balance within the bounds, with
\* the points of that many check-ins in a row.
RECURSIVE RunPoints(_)
RunPoints(streak) ==
    IF streak = 0 THEN 0
    ELSE PointsEarned(DefaultPointsPerCheckin, DefaultStreakBonus, streak)
         + RunPoints(streak - 1)

InitCalc ==
    /\ workers = {1}
    /\ admins = {}
    /\ cloudinary_configured = FALSE
    /\ challenges = [c \in {1} |-> ChallengeRow(1, "none", NoDate)]
    /\ \E streak \in 0..MaxSeedStreak, freezes \in 0..MaxSeedFreezes :
          /\ members = {[NewMember(1, 1, 1) EXCEPT !.points = RunPoints(streak),
                                                   !.current_streak = streak,
                                                   !.best_streak = streak,
                                                   !.streak_freezes = freezes]}
          /\ users = [u \in Users |->
                        [NewUser(u) EXCEPT !.total_points =
                                               IF u = 1 THEN RunPoints(streak) ELSE 0]]
    /\ checkins = EmptyBag
    /\ InitCommon

SpecCalc == InitCalc /\ [][Next]_vars

\* Membership and the achievement evaluator with two workers: challenges
\* are created and joined, and the evaluator runs step by step after every
\* create and join.  Challenge 1 is either running or was completed the day
\* before with its creator as winner.
InitJoin ==
    /\ workers = Reqs
    /\ admins = {2}
    /\ cloudinary_configured = FALSE
    /\ \E completed \in BOOLEAN :
          /\ challenges = [c \in {1} |->
                IF completed
                THEN [ChallengeRow(1, "none", 0 - 1) EXCEPT !.is_completed = TRUE,
                                                           !.winner_id = 1]
                ELSE ChallengeRow(1, "none", NoDate)]
          /\ notifications =
                SetToBag({Notif(1, "achievement_earned", 8)}
                         \cup (IF completed THEN {Notif(1, "challenge_completed", 1)}
                               ELSE {}))
    /\ users = [u \in Users |-> NewUser(u)]
    /\ members = {NewMember(1, 1, 1)}
    /\ checkins = EmptyBag
    /\ now = 0
    /\ inserted = 0
    /\ userAchievements = {[id |-> 1, user_id |-> 1, achievement_id |-> 8]}
    /\ nudges = {}
    /\ reqs = [r \in Reqs |-> IdleReq]
    /\ reactions = {}
    /\ session = NoId
    /\ response = "none"

NextJoin ==
    \/ \E r \in Reqs, u \in Users, off \in TzOffsets, end_date \in {NoDate, now} :
          CreateChallenge(r, u, off, end_date)
    \/ \E r \in Reqs, u \in Users, code \in JoinCodes, method \in {"POST", "GET"} :
          JoinLookup(r, u, code, method)
    \/ \E r \in Reqs : JoinCommit(r)
    \/ \E r \in Reqs : JoinNotify(r)
    \/ \E r \in Reqs : AchRead(r)
    \/ \E r \in Reqs : AchAward(r)

SpecJoin == InitJoin /\ [][NextJoin]_vars

\* Every state-changing handler, one request at a time.
InitAll ==
    /\ workers = {1}
    /\ admins = {2}
    /\ cloudinary_configured \in BOOLEAN
    /\ \E completed \in BOOLEAN :
          /\ challenges = [c \in {1} |->
                IF completed
                THEN [ChallengeRow(1, "photo_required", 0 - 1) EXCEPT !.is_completed = TRUE,
                                                                     !.winner_id = 1]
                ELSE ChallengeRow(1, "photo_required", NoDate)]
          /\ notifications =
                SetToBag({Notif(1, "achievement_earned", 8)}
                         \cup (IF completed THEN {Notif(1, "challenge_completed", 1)}
                               ELSE {}))
    /\ users = [u \in Users |-> NewUser(u)]
    /\ members = {NewMember(1, 1, 1)}
    /\ checkins = EmptyBag
    /\ now = 0
    /\ inserted = 0
    /\ userAchievements = {[id |-> 1, user_id |-> 1, achievement_id |-> 8]}
    /\ nudges = {}
    /\ reqs = [r \in Reqs |-> IdleReq]
    /\ reactions = {}
    /\ session = NoId
    /\ response = "none"

NextAll ==
    \/ \E u \in Users, c \in DOMAIN challenges, off \in TzOffsets :
          \E cd \in ClientDates(off), f \in Files, uploaded \in BOOLEAN :
             Begin(1, u, c, off, cd, f, uploaded)
    \/ Commit(1)
    \/ AchRead(1)
    \/ AchAward(1)
    \/ \E u \in Users, code \in JoinCodes, method \in {"POST", "GET"} :
          JoinLookup(1, u, code, method)
    \/ JoinCommit(1)
    \/ JoinNotify(1)
    \/ \E u \in Users, c \in DOMAIN challenges, target \in Users, off \in TzOffsets :
          NudgeLookup(1, u, c, target, off)
    \/ NudgeCommit(1)
    \/ \E u \in Users, k \in BagToSet(checkins) : NukeCheckin(u, k)

SpecAll == InitAll /\ [][NextAll]_vars

\* The lifecycle with one request at a time: user 1 runs challenge 1 and
\* user 2 runs challenge 2, both may end today; users join, check in and
\* open the dashboard while the days pass.
InitLife ==
    /\ workers = {1}
    /\ admins = {2}
    /\ cloudinary_configured = FALSE
    /\ \E e \in {NoDate, 0} :
          challenges = [c \in {1, 2} |->
                           IF c = 1 THEN ChallengeRow(1, "none", 0)
                           ELSE ChallengeRow(2, "none", e)]
    /\ users = [u \in Users |-> NewUser(u)]
    /\ members = {NewMember(1, 1, 1), NewMember(2, 2, 2)}
    /\ checkins = EmptyBag
    /\ now = 0
    /\ inserted = 0
    /\ userAchievements = {[id |-> 1, user_id |-> 1, achievement_id |-> 8],
                           [id |-> 2, user_id |-> 2, achievement_id |-> 8]}
    /\ notifications = SetToBag({Notif(1, "achievement_earned", 8),
                                 Notif(2, "achievement_earned", 8)})
    /\ nudges = {}
    /\ reqs = [r \in Reqs |-> IdleReq]
    /\ reactions = {}
    /\ session = NoId
    /\ response = "none"

NextLife ==
    \/ \E u \in Users, c \in DOMAIN challenges, off \in TzOffsets :
          Begin(1, u, c, off, NoDate, NoFile, FALSE)
    \/ Commit(1)
    \/ AchRead(1)
    \/ AchAward(1)
    \/ \E u \in Users, code \in JoinCodes : JoinLookup(1, u, code, "POST")
    \/ JoinCommit(1)
    \/ JoinNotify(1)
    \/ \E u \in Users, off \in TzOffsets : LifeStart(1, u, off)
    \/ LifeCheck(1)
    \/ LifeNotify(1)
    \/ Tick

SpecLife == InitLife /\ [][NextLife]_vars

\* a handler that has started its loops runs them to the end
SpecLifeFair == SpecLife /\ WF_vars(LifeCheck(1)) /\ WF_vars(LifeNotify(1))

\* The lifecycle with two workers: users 1 and 2 are both members of
\* challenge 1, which ends today; they check in and open the dashboard
\* while the days pass, and their requests interleave step by step.
InitRace ==
    /\ workers = Reqs
    /\ admins = {2}
    /\ cloudinary_configured = FALSE
    /\ challenges = [c \in {1} |-> ChallengeRow(1, "none", 0)]
    /\ users = [u \in Users |-> NewUser(u)]
    /\ members = {NewMember(1, 1, 1), NewMember(2, 1, 2)}
    /\ checkins = EmptyBag
    /\ now = 0
    /\ inserted = 0
    /\ userAchievements = {[id |-> 1, user_id |-> 1, achievement_id |-> 8]}
    /\ notifications = SetToBag({Notif(1, "achievement_earned", 8),
                                 Notif(1, "challenge_activity", 1)})
    /\ nudges = {}
    /\ reqs = [r \in Reqs |-> IdleReq]
    /\ reactions = {}
    /\ session = NoId
    /\ response = "none"

NextRace ==
    \/ \E r \in Reqs, u \in Users, off \in TzOffsets :
          Begin(r, u, 1, off, NoDate, NoFile, FALSE)
    \/ \E r \in Reqs : Commit(r)
    \/ \E r \in Reqs : CheckAchievements(r)
    \/ \E r \in Reqs, u \in Users, off \in TzOffsets : LifeStart(r, u, off)
    \/ \E r \in Reqs : LifeCheck(r)
    \/ \E r \in Reqs : LifeNotify(r)
    \/ Tick

SpecRace == InitRace /\ [][NextRace]_vars

\* Around the completion, with two workers: user 1 created challenge 1,
\* which ends today; user 2 may join it.  Check-ins, joins and dashboard
\* visits interleave step by step while the days pass.
InitAfter ==
    /\ workers = Reqs
    /\ admins = {}
    /\ cloudinary_configured = FALSE
    /\ challenges = [c \in {1} |-> ChallengeRow(1, "none", 0)]
    /\ users = [u \in Users |-> NewUser(u)]
    /\ members = {NewMember(1, 1, 1)}
    /\ checkins = EmptyBag
    /\ now = 0
    /\ inserted = 0
    /\ userAchievements = {[id |-> 1, user_id |-> 1, achievement_id |-> 8]}
    /\ notifications = SetToBag({Notif(1, "achievement_earned", 8)})
    /\ nudges = {}
    /\ reqs = [r \in Reqs |-> IdleReq]
    /\ reactions = {}
    /\ session = NoId
    /\ response = "none"

NextAfter ==
    \/ \E r \in Reqs, u \in Users : Begin(r, u, 1, 0, NoDate, NoFile, FALSE)
    \/ \E r \in Reqs : Commit(r)
    \/ \E r \in Reqs : CheckAchievements(r)
    \/ \E r \in Reqs, u \in Users : JoinLookup(r, u, 1, "POST")
    \/ \E r \in Reqs : JoinCommit(r)
    \/ \E r \in Reqs : JoinNotify(r)
    \/ \E r \in Reqs, u \in Users : LifeStart(r, u, 0)
    \/ \E r \in Reqs : LifeCheck(r)
    \/ \E r \in Reqs : LifeNotify(r)
    \/ Tick

SpecAfter == InitAfter /\ [][NextAfter]_vars

\* Photos, one request at a time: challenge 1 takes a photo as an option or
\* requires one, the image host is configured or not, and every upload may
\* fail; users check in and change their profile photo.
InitPhoto ==
    /\ workers = {1}
    /\ admins = {2}
    /\ cloudinary_configured \in BOOLEAN
    /\ \E vt \in {"none", "photo_required"} :
          challenges = [c \in {1} |-> ChallengeRow(1, vt, 0)]
    /\ users = [u \in Users |-> NewUser(u)]
    /\ members = {NewMember(1, 1, 1)}
    /\ checkins = EmptyBag
    /\ InitCommon

NextPhoto ==
    \/ \E u \in Users, off \in TzOffsets, f \in Files, uploaded \in BOOLEAN :
          Begin(1, u, 1, off, NoDate, f, uploaded)
    \/ Commit(1)
    \/ CheckAchievements(1)
    \/ \E u \in Users, f \in Files, uploaded \in BOOLEAN : UploadProfilePhoto(u, f, uploaded)
    \/ Tick

SpecPhoto == InitPhoto /\ [][NextPhoto]_vars

\* Check-in dates, one request at a time.  User 1 created challenge 1 and
\* is either new to it, or has checked in on each of the seven days up to
\* day last: a streak of 7 that earned one freeze, 175 points and the
\* achievements 'First Check-in', 'Week Warrior' and 'Centurion'.
WeekRows(last) ==
    SetToBag({[challenge_id |-> 1, user_id |-> 1, checkin_date |-> d, photo_url |-> NoUrl] :
                 d \in (last - 6)..last})

WeekMember ==
    [NewMember(1, 1, 1) EXCEPT !.points = RunPoints(7), !.current_streak = 7,
                               !.best_streak = 7, !.streak_freezes = 1]

InitWeek(end_date) ==
    /\ admins = {2}
    /\ cloudinary_configured = FALSE
    /\ challenges = [c \in {1} |-> ChallengeRow(1, "none", end_date)]
    /\ now = 0
    /\ inserted = 0
    /\ nudges = {}
    /\ reqs = [r \in Reqs |-> IdleReq]
    /\ reactions = {}
    /\ session = NoId
    /\ response = "none"
    /\ \/ /\ members = {NewMember(1, 1, 1)}
          /\ users = [u \in Users |-> NewUser(u)]
          /\ checkins = EmptyBag
          /\ userAchievements = {[id |-> 1, user_id |-> 1, achievement_id |-> 8]}
          /\ notifications = SetToBag({Notif(1, "achievement_earned", 8)})
       \/ \E last \in (0 - 3)..(0 - 1) :
             /\ members = {WeekMember}
             /\ users = [u \in Users |->
                           [NewUser(u) EXCEPT !.total_points =
                                                  IF u = 1 THEN RunPoints(7) ELSE 0]]
             /\ checkins = WeekRows(last)
             /\ userAchievements = {[id |-> 1, user_id |-> 1, achievement_id |-> 8],
                                    [id |-> 2, user_id |-> 1, achievement_id |-> 1],
                                    [id |-> 3, user_id |-> 1, achievement_id |-> 2],
                                    [id |-> 4, user_id |-> 1, achievement_id |-> 5]}
             /\ notifications = SetToBag({Notif(1, "achievement_earned", a) :
                                             a \in {8, 1, 2, 5}})

InitDays ==
    /\ workers = {1}
    /\ InitWeek(NoDate)

NextDays ==
    \/ \E u \in Users, off \in TzOffsets :
          \E cd \in ClientDates(off) : Begin(1, u, 1, off, cd, NoFile, FALSE)
    \/ Commit(1)
    \/ CheckAchievements(1)
    \/ Tick

SpecDays == InitDays /\ [][NextDays]_vars

\* One real calendar day: users 1 and 2 are members of challenge 1 and of
\* challenge 2, nobody has checked in yet, and the date never changes.
InitOneDay ==
    /\ workers = {1}
    /\ admins = {2}
    /\ cloudinary_configured = FALSE
    /\ challenges = [c \in {1, 2} |-> ChallengeRow(c, "none", NoDate)]
    /\ users = [u \in Users |-> NewUser(u)]
    /\ members = {NewMember(1, 1, 1), NewMember(2, 2, 2), NewMember(3, 1, 2),
                  NewMember(4, 2, 1)}
    /\ checkins = EmptyBag
    /\ now = 0
    /\ inserted = 0
    /\ userAchievements = {[id |-> 1, user_id |-> 1, achievement_id |-> 8],
                           [id |-> 2, user_id |-> 2, achievement_id |-> 8]}
    /\ notifications = SetToBag({Notif(1, "achievement_earned", 8),
                                 Notif(2, "achievement_earned", 8),
                                 Notif(1, "challenge_activity", 1),
                                 Notif(2, "challenge_activity", 2)})
    /\ nudges = {}
    /\ reqs = [r \in Reqs |-> IdleReq]
    /\ reactions = {}
    /\ session = NoId
    /\ response = "none"

NextOneDay ==
    \/ \E u \in Users, c \in DOMAIN challenges, off \in TzOffsets :
          \E cd \in ClientDates(off) : Begin(1, u, c, off, cd, NoFile, FALSE)
    \/ Commit(1)
    \/ CheckAchievements(1)

SpecOneDay == InitOneDay /\ [][NextOneDay]_vars

\* Two workers serve check-ins of the members of two challenges, each
\* handler step by step, within one day.
InitTotals ==
    /\ workers = {1, 2}
    /\ admins = {}
    /\ cloudinary_configured = FALSE
    /\ challenges = [c \in {1, 2} |-> ChallengeRow(c, "none", NoDate)]
    /\ users = [u \in Users |-> NewUser(u)]
    /\ members = {NewMember(1, 1, 1), NewMember(2, 2, 2), NewMember(3, 1, 2),
                  NewMember(4, 2, 1)}
    /\ checkins = EmptyBag
    /\ now = 0
    /\ inserted = 0
    /\ userAchievements = {[id |-> 1, user_id |-> 1, achievement_id |-> 8],
                           [id |-> 2, user_id |-> 2, achievement_id |-> 8]}
    /\ notifications = SetToBag({Notif(1, "achievement_earned", 8),
                                 Notif(2, "achievement_earned", 8),
                                 Notif(1, "challenge_activity", 1),
                                 Notif(2, "challenge_activity", 2)})
    /\ nudges = {}
    /\ reqs = [r \in Reqs |-> IdleReq]
    /\ reactions = {}
    /\ session = NoId
    /\ response = "none"

NextTotals ==
    \/ \E r \in Reqs, u \in Users, c \in DOMAIN challenges :
          Begin(r, u, c, 0, NoDate, NoFile, FALSE)
    \/ \E r \in Reqs : Calculate(r)
    \/ \E r \in Reqs : Flush(r)
    \/ \E r \in Reqs : CheckAchievements(r)

SpecTotals == InitTotals /\ [][NextTotals]_vars

\* The admin delete, one request at a time: users 1 and 2 are members of
\* challenge 1, user 2 is the admin; they check in, react and delete.
InitNuke ==
    /\ workers = {1}
    /\ admins = {2}
    /\ cloudinary_configured = FALSE
    /\ challenges = [c \in {1} |-> ChallengeRow(1, "none", NoDate)]
    /\ users = [u \in Users |-> NewUser(u)]
    /\ members = {NewMember(1, 1, 1), NewMember(2, 1, 2)}
    /\ checkins = EmptyBag
    /\ now = 0
    /\ inserted = 0
    /\ userAchievements = {[id |-> 1, user_id |-> 1, achievement_id |-> 8]}
    /\ notifications = SetToBag({Notif(1, "achievement_earned", 8),
                                 Notif(1, "challenge_activity", 1)})
    /\ nudges = {}
    /\ reqs = [r \in Reqs |-> IdleReq]
    /\ reactions = {}
    /\ session = NoId
    /\ response = "none"

NextNuke ==
    \/ \E u \in Users, off \in TzOffsets :
          \E cd \in ClientDates(off) : Begin(1, u, 1, off, cd, NoFile, FALSE)
    \/ Commit(1)
    \/ CheckAchievements(1)
    \/ \E u \in Users, k \in BagToSet(checkins), reaction \in ReactionKinds :
          React(u, k, reaction)
    \/ \E u \in Users, k \in BagToSet(checkins) : NukeCheckin(u, k)

SpecNuke == InitNuke /\ [][NextNuke]_vars

\* Google sign-in alone.  Alice registered with a password, without an email
\* or with one; bob has an email and may have signed in with Google before.
InitAuth ==
    /\ workers = {1}
    /\ admins = {}
    /\ cloudinary_configured = FALSE
    /\ challenges = [c \in {1} |-> ChallengeRow(1, "none", NoDate)]
    /\ \E e \in {NoEmail, Email("alice", "home.org")}, g \in {NoId, 1} :
          users = [u \in Users |->
                     IF u = 1 THEN UserRow(Usernames[1], e, NoId)
                     ELSE UserRow(Usernames[2], Email("bob", "home.org"), g)]
    /\ members = {NewMember(1, 1, 1)}
    /\ checkins = EmptyBag
    /\ now = 0
    /\ inserted = 0
    /\ userAchievements = {}
    /\ notifications = EmptyBag
    /\ nudges = {}
    /\ reqs = [r \in Reqs |-> IdleReq]
    /\ reactions = {}
    /\ session = NoId
    /\ response = "none"

NextAuth ==
    \E google_id \in GoogleIds, email \in ProfileEmails :
        AuthGoogleCallback(google_id, email)

SpecAuth == InitAuth /\ [][NextAuth]_vars

\* ======================================================================
\* Properties
\* ======================================================================
\* the step in which worker r commits its check-in (Commit, no IntegrityError)
Committed(r) == reqs[r].pc = "commit" /\ reqs'[r].pc = "ach"

\* the membership row of worker r's request, before and after the step
RowBefore(r) ==
    CHOOSE m \in members :
        m.challenge_id = reqs[r].challenge_id /\ m.user_id = reqs[r].user_id

RowAfter(r) ==
    CHOOSE m \in members' :
        m.challenge_id = reqs[r].challenge_id /\ m.user_id = reqs[r].user_id

\* a Checkin row for the day before the request's date exists before the step
HasYesterday(r) ==
    CheckinRows(reqs[r].challenge_id, reqs[r].user_id, reqs[r].today - 1) # {}

\* C1: a check-in the day after a recorded check-in makes the streak
\* old streak + 1 and consumes no freeze, whatever the freeze balance.
C1_YesterdayIncrements ==
    [][\A r \in Reqs :
          Committed(r) /\ HasYesterday(r) =>
             /\ RowAfter(r).current_streak = RowBefore(r).current_streak + 1
             /\ ~ reqs'[r].freeze_used
             /\ RowAfter(r).freezes_used = RowBefore(r).freezes_used]_vars

C1_Witness ==
    \E r \in Reqs :
       /\ reqs[r].pc = "ach"
       /\ reqs[r].checked_yesterday
       /\ reqs[r].membership.streak_freezes > 0
       /\ reqs[r].new_streak = reqs[r].membership.current_streak + 1

\* C2: with no check-in the day before, a streak > 0 and a freeze balance
\* > 0, the streak becomes old streak + 1 and exactly one freeze is consumed;
\* from streak 6 with 1 freeze: streak 7, one freeze used, one earned,
\* points = base + bonus * 6.
C2_FreezeKeepsStreak ==
    [][\A r \in Reqs :
          (/\ Committed(r)
           /\ ~ HasYesterday(r)
           /\ RowBefore(r).current_streak > 0
           /\ RowBefore(r).streak_freezes > 0) =>
             /\ RowAfter(r).current_streak = RowBefore(r).current_streak + 1
             /\ reqs'[r].freeze_used
             /\ RowAfter(r).freezes_used = RowBefore(r).freezes_used + 1
             /\ (RowBefore(r).current_streak = 6 /\ RowBefore(r).streak_freezes = 1 =>
                   /\ RowAfter(r).current_streak = 7
                   /\ reqs'[r].freeze_earned = 1
                   /\ RowAfter(r).streak_freezes = 1
                   /\ reqs'[r].points_earned =
                         challenges[reqs[r].challenge_id].points_per_checkin
                         + challenges[reqs[r].challenge_id].streak_bonus * 6)]_vars

C2_Witness ==
    \E r \in Reqs :
       /\ reqs[r].pc = "ach"
       /\ ~ reqs[r].checked_yesterday
       /\ reqs[r].membership.current_streak = 6
       /\ reqs[r].membership.streak_freezes = 1
       /\ reqs[r].freeze_used
       /\ reqs[r].new_streak = 7

\* C3: with no check-in the day before and a streak of 0 or no freeze left,
\* the streak becomes 1, no freeze is consumed and the points earned are the
\* challenge's base points.
C3_ResetToOne ==
    [][\A r \in Reqs :
          (/\ Committed(r)
           /\ ~ HasYesterday(r)
           /\ (RowBefore(r).current_streak = 0 \/ RowBefore(r).streak_freezes = 0)) =>
             /\ RowAfter(r).current_streak = 1
             /\ ~ reqs'[r].freeze_used
             /\ RowAfter(r).freezes_used = RowBefore(r).freezes_used
             /\ RowAfter(r).streak_freezes = RowBefore(r).streak_freezes
             /\ reqs'[r].points_earned =
                   challenges[reqs[r].challenge_id].points_per_checkin]_vars

C3_Witness ==
    \E r \in Reqs :
       /\ reqs[r].pc = "ach"
       /\ ~ reqs[r].checked_yesterday
       /\ reqs[r].membership.current_streak > 1
       /\ reqs[r].membership.streak_freezes = 0
       /\ reqs[r].new_streak = 1

\* C4: the points earned by a check-in are base + bonus * (new streak - 1)
\* when the stored new streak is > 1, and base when it is 1; the membership
\* gains exactly these points.
C4_PointsFormula ==
    [][\A r \in Reqs :
          Committed(r) =>
             LET ch == challenges[reqs[r].challenge_id]
                 new_streak == RowAfter(r).current_streak
                 earned == RowAfter(r).points - RowBefore(r).points
             IN /\ earned = reqs'[r].points_earned
                /\ new_streak > 1 =>
                      earned = ch.points_per_checkin + ch.streak_bonus * (new_streak - 1)
                /\ new_streak = 1 => earned = ch.points_per_checkin]_vars

C4_Witness ==
    \E r \in Reqs :
       /\ reqs[r].pc = "ach"
       /\ reqs[r].new_streak > 1
       /\ reqs[r].points_earned > challenges[reqs[r].challenge_id].points_per_checkin

\* C5 as stated: for every check-in, also one that resets the streak, the
\* freezes earned are floor(new streak / 7) - floor(old streak / 7).
C5_FreezeAwardAlways ==
    [][\A r \in Reqs :
          Committed(r) =>
             reqs'[r].freeze_earned =
                (RowAfter(r).current_streak \div 7) - (RowBefore(r).current_streak \div 7)]_vars

\* C5 amended: the freezes earned are floor(new streak / 7) - floor(old
\* streak / 7) when the new streak is at least 7, and 0 otherwise (0, not a
\* negative number, on a reset to 1 from a streak of 7 or more); the balance
\* grows by what was earned less the freeze used.
C5_FreezeAward ==
    [][\A r \in Reqs :
          Committed(r) =>
             LET old_streak == RowBefore(r).current_streak
                 new_streak == RowAfter(r).current_streak
                 earned == reqs'[r].freeze_earned
             IN /\ new_streak >= 7 => earned = (new_streak \div 7) - (old_streak \div 7)
                /\ new_streak < 7 => earned = 0
                /\ RowAfter(r).streak_freezes =
                      RowBefore(r).streak_freezes + earned
                      - (IF reqs'[r].freeze_used THEN 1 ELSE 0)]_vars

C5_Witness ==
    \E r \in Reqs :
       /\ reqs[r].pc = "ach"
       /\ reqs[r].membership.current_streak >= 7
       /\ reqs[r].new_streak = 1
       /\ reqs[r].freeze_earned = 0

\* a Checkin row appears in the table in this step
RowAdded == \E k \in BagToSet(checkins') : CopiesIn(k, checkins') > CopiesIn(k, checkins)

\* worker r's request leaves the commit point without committing
Aborted(r) == reqs[r].pc = "commit" /\ reqs'[r].pc = "idle"

\* C6: in every reachable state, under any interleaving of check-in and
\* admin-delete requests, at most one Checkin row exists per
\* (challenge, user, date).
C6_OneCheckinPerDay ==
    \A k \in BagToSet(checkins) :
        CountRows(checkins, CheckinRows(k.challenge_id, k.user_id, k.checkin_date)) <= 1

\* two requests for the same key raced past the lookup, one row was
\* committed and the constraint refused the other
C6_Witness ==
    /\ response = "error500"
    /\ \E k \in BagToSet(checkins) : k.user_id = 1 /\ CopiesIn(k, checkins) = 1
    /\ inserted >= 1

\* C7: when a request that passed the existing-check-in lookup reaches its
\* commit and a row for its (challenge, user, date) is already there, the
\* caller is told "Already checked in" and no membership, user or checkin
\* state changes.
C7_DoubleSubmitFailsCleanly ==
    [][\A r \in Reqs :
          (/\ Aborted(r)
           /\ response' # "none"
           /\ CheckinRows(reqs[r].challenge_id, reqs[r].user_id, reqs[r].today) # {})
          => (response' = "already" /\ UNCHANGED <<members, users, checkins>>)]_vars

\* C8: the Checkin row and the membership and user-total writes of one
\* check-in appear in the same step or not at all: a row is added exactly
\* by a committing request, that step also stores the request's points,
\* streak, best streak, freeze balance and user total, and a step that adds
\* no row (an interrupted or refused request included) changes neither the
\* membership nor the user.
C8_AtomicCommit ==
    [][/\ RowAdded <=> (\E r \in Reqs : Committed(r))
       /\ \A r \in Reqs : Committed(r) =>
             LET q == reqs'[r] IN
             /\ RowAfter(r).points = q.membership.points + q.points_earned
             /\ RowAfter(r).current_streak = q.new_streak
             /\ RowAfter(r).best_streak = Max(q.membership.best_streak, q.new_streak)
             /\ RowAfter(r).streak_freezes =
                   Max(0, q.membership.streak_freezes + q.freeze_earned
                          - (IF q.freeze_used THEN 1 ELSE 0))
             /\ users'[q.user_id].total_points =
                   users[q.user_id].total_points + q.points_earned
       /\ ~ RowAdded => UNCHANGED <<members, users>>
       /\ \A r \in Reqs : Aborted(r) => UNCHANGED <<members, users, checkins>>]_vars

\* a request was interrupted between its reads and its commit after another
\* check-in had been committed with its updates
C8_Witness ==
    /\ \E r \in Reqs : reqs[r].pc = "commit"
    /\ \E r \in Reqs :
          /\ reqs[r].pc = "ach"
          /\ CheckinRows(reqs[r].challenge_id, reqs[r].user_id, reqs[r].today) # {}
          /\ \E m \in members : m.user_id = reqs[r].user_id
                                /\ m.points = reqs[r].membership.points
                                              + reqs[r].points_earned

\* the failure a request for date d by user u with file f would get
RejectOf(c, u, d, f, uploaded) == Reject(c, u, d, FirstMember(c, u), f, uploaded)

\* "a validated uploaded image exists"
Proof(f, uploaded) == Considered(f) /\ ValidateImageFile(f) /\ PhotoUrl(f, uploaded) # NoUrl

Rejections == {"not_member", "ended", "already", "invalid_image", "photo_required"}

\* C9: the failure reported is that of the first failing precondition in the
\* order membership, not completed, no row for the date, photo proof; and a
\* request that fails a precondition runs no later step (no table and no
\* request state changes).
C9_PreconditionOrder ==
    /\ [](\A c \in DOMAIN challenges, u \in Users :
            LET member == MemberRows(c, u) # {}
                completed == challenges[c].is_completed
                required == challenges[c].verification_type = "photo_required"
            IN \A d \in (now - 2)..now :
               LET exists == CheckinRows(c, u, d) # {} IN
               \A f \in Files, uploaded \in BOOLEAN :
                  LET rej == RejectOf(c, u, d, f, uploaded) IN
                  IF ~ member THEN rej = "not_member"
                  ELSE IF completed THEN rej = "ended"
                  ELSE IF exists THEN rej = "already"
                  ELSE IF required /\ ~ Proof(f, uploaded)
                       THEN rej \in {"invalid_image", "photo_required"}
                  ELSE IF required THEN rej = "none"
                  ELSE rej \in {"invalid_image", "none"})
    /\ [][/\ response' \in Rejections => UNCHANGED <<db, reqs>>
          /\ response' = "ended" => \E c \in DOMAIN challenges : challenges[c].is_completed
          /\ response' \in {"already", "invalid_image", "photo_required"} =>
                \E c \in DOMAIN challenges : ~ challenges[c].is_completed]_vars

\* a non-member asked to check in to a completed challenge (preconditions
\* 1 and 2 both fail) and was told they are not a member
C9_Witness ==
    /\ response = "not_member"
    /\ \A c \in DOMAIN challenges : challenges[c].is_completed

\* C10: a successful check-in adds exactly one Checkin row, adds the points
\* earned to the membership's points and to the user's lifetime total, sets
\* the current streak to the calculated one, the best streak to
\* max(old best, new streak), the freeze balance to old + earned - (1 if a
\* freeze was used); success is reported only after the achievement
\* evaluator has run for that user.
C10_SuccessEffects ==
    [][/\ \A r \in Reqs : Committed(r) =>
             LET q == reqs'[r]
                 row == [challenge_id |-> q.challenge_id, user_id |-> q.user_id,
                         checkin_date |-> q.today, photo_url |-> q.photo_url]
                 used == IF FreezeUsed(RowBefore(r).current_streak,
                                       RowBefore(r).streak_freezes, HasYesterday(r))
                         THEN 1 ELSE 0
                 streak == NewStreak(RowBefore(r).current_streak,
                                     RowBefore(r).streak_freezes, HasYesterday(r))
             IN /\ BagCardinality(checkins') = BagCardinality(checkins) + 1
                /\ CopiesIn(row, checkins') = CopiesIn(row, checkins) + 1
                /\ RowAfter(r).points = RowBefore(r).points + q.points_earned
                /\ users'[q.user_id].total_points =
                      users[q.user_id].total_points + q.points_earned
                /\ q.points_earned = PointsEarned(challenges[q.challenge_id].points_per_checkin,
                                                  challenges[q.challenge_id].streak_bonus, streak)
                /\ RowAfter(r).current_streak = streak
                /\ RowAfter(r).best_streak = Max(RowBefore(r).best_streak, streak)
                /\ RowAfter(r).streak_freezes =
                      RowBefore(r).streak_freezes
                      + FreezeEarned(RowBefore(r).current_streak, streak) - used
       /\ response' = "ok" =>
             \E r \in Reqs :
                /\ reqs[r].pc = "ach" /\ reqs'[r].pc = "idle"
                /\ \E u \in Users : u = reqs[r].user_id /\ (ToAward(u))' = {}]_vars

\* a successful check-in that reset a longer streak (best streak kept) was
\* followed by the evaluator and reported
C10_Witness ==
    /\ response = "ok"
    /\ inserted = 1
    /\ \E m \in members : m.current_streak = 1 /\ m.best_streak > 1 /\ m.points > 0

\* C12: in every reachable state every membership's streak_freezes balance
\* is >= 0.
C12_FreezesNonNegative == \A m \in members : m.streak_freezes >= 0

\* a check-in spent the last freeze of a membership
C12_Witness ==
    \E r \in Reqs :
       /\ reqs[r].pc = "ach"
       /\ reqs[r].freeze_used
       /\ reqs[r].membership.streak_freezes = 1
       /\ \E m \in members : m.id = reqs[r].membership.id /\ m.streak_freezes = 0

\* C20: every Checkin row of a photo_required challenge has a photo
\* reference; a request to such a challenge gets past the photo step only
\* with a file of an allowed extension whose signature validated and whose
\* upload succeeded; a request refused for its photo leaves every table as it
\* was.
C20_PhotoBeforePersist ==
    /\ [](/\ \A k \in BagToSet(checkins) :
                challenges[k.challenge_id].verification_type = "photo_required"
                => k.photo_url # NoUrl
          /\ \A c \in DOMAIN challenges, u \in Users, f \in Files, uploaded \in BOOLEAN :
                (/\ challenges[c].verification_type = "photo_required"
                 /\ RejectOf(c, u, now, f, uploaded) = "none")
                => (/\ f # NoFile /\ AllowedFile(f) /\ ValidateImageFile(f)
                    /\ cloudinary_configured /\ uploaded))
    /\ [][response' \in {"invalid_image", "photo_required"} => UNCHANGED <<db, reqs>>]_vars

\* a photo_required challenge holds a Checkin row, and a later request
\* without a stored photo was refused
C20_Witness ==
    /\ response = "photo_required"
    /\ cloudinary_configured
    /\ \E k \in BagToSet(checkins) :
          challenges[k.challenge_id].verification_type = "photo_required"

\* the validation, authorization and conflict errors of the check-in, join,
\* nudge and admin-delete handlers
ErrorResponses ==
    {"not_member", "ended", "already", "invalid_image", "photo_required",
     "invalid_code", "already_member", "cant_nudge_self", "invalid_member",
     "already_checked_in", "already_nudged", "unauthorized"}

\* C11: a check-in, join, nudge or admin-delete request that is rejected
\* with a validation, authorization or conflict error leaves every table
\* unchanged; a second check-in for a (user, challenge, day) that has a row
\* is refused as a conflict, and the membership and user written by the
\* first stay as they are.
C11_RejectedLeavesState ==
    /\ [](\A c \in DOMAIN challenges, u \in Users, d \in (now - 1)..now,
             f \in Files, uploaded \in BOOLEAN :
            (CheckinRows(c, u, d) # {} /\ ~ challenges[c].is_completed)
            => RejectOf(c, u, d, f, uploaded) = "already")
    /\ [][response' \in ErrorResponses => UNCHANGED <<db, reqs>>]_vars

\* a second check-in for the same day was refused after the first earned
\* its points
C11_Witness ==
    /\ response = "already"
    /\ \E m \in members : m.points = DefaultPointsPerCheckin /\ m.current_streak = 1
    /\ BagCardinality(checkins) = 1

\* at most one membership row per (challenge, user)
OneMembershipPerPair ==
    \A c \in DOMAIN challenges, u \in Users : Cardinality(MemberRows(c, u)) <= 1

\* no join adds a row for a pair that has one
JoinCreatesNothing ==
    \A c \in DOMAIN challenges, u \in Users :
        MemberRows(c, u) # {} => (MemberRows(c, u))' = MemberRows(c, u)

\* C13 (as stated): at most one membership exists per (user, challenge)
\* under every interleaving of create, POST join and GET join, and every
\* join by a user who is already a member is answered 'already in this
\* challenge' and creates nothing.
C13_MemberAlwaysToldAlready ==
    /\ []OneMembershipPerPair
    /\ [](\A c \in DOMAIN challenges, u \in Users, method \in {"POST", "GET"} :
             MemberRows(c, u) # {} => JoinReject(u, c, method) = "already_member")
    /\ [][JoinCreatesNothing]_vars

\* C13 (amended): at most one membership exists per (user, challenge) under
\* every interleaving of create, POST join and GET join; a join by a user
\* whose membership exists creates nothing; a POST by a member is answered
\* 'already in this challenge' unless the challenge is completed, when the
\* answer is 'already ended'; a GET by a member is redirected to the
\* challenge without a message.
C13_OneMembership ==
    /\ []OneMembershipPerPair
    /\ [](\A c \in DOMAIN challenges, u \in Users :
             MemberRows(c, u) # {} =>
                /\ JoinReject(u, c, "POST") =
                      (IF challenges[c].is_completed THEN "ended" ELSE "already_member")
                /\ JoinReject(u, c, "GET") = "redirect")
    /\ [][JoinCreatesNothing]_vars

\* user 2 joined challenge 1 and posted its code again
C13_Witness ==
    /\ response = "already_member"
    /\ MemberRows(1, 2) # {}

\* the achievements of user u whose statistic reaches the threshold
Qualifying(u) ==
    {a \in DOMAIN Achievements :
        StatMap(u)[Achievements[a].condition_type] >= Achievements[a].condition_value}

\* what a second run of the evaluator for u would find to award right after
\* a first run, nothing else having happened
SecondRunTodo(u) ==
    LET first == AwardLoop(u, ToAward(u), userAchievements, notifications) IN
    {a \in Qualifying(u) :
        ~ \E x \in first.uas : x.user_id = u /\ x.achievement_id = a}

\* C14: a UserAchievement row, once there, stays in every later state; no
\* two rows share (user, achievement); a run of the evaluator that follows
\* a run with no activity in between creates no row.
C14_EarnedOnceForever ==
    /\ [](\A x, y \in userAchievements :
             (x.user_id = y.user_id /\ x.achievement_id = y.achievement_id) => x = y)
    /\ [](\A u \in Users : SecondRunTodo(u) = {})
    /\ [][/\ userAchievements \subseteq userAchievements'
          /\ \A r \in Reqs :
                (/\ reqs[r].pc = "ach" /\ reqs'[r].pc # "ach"
                 /\ Qualifying(reqs[r].user_id) \subseteq EarnedIds(reqs[r].user_id))
                => (userAchievements' = userAchievements /\ reqs'[r].pc = "idle")]_vars

\* two runs for one user read the same unearned achievement; one has
\* stored its row and the other is about to store a second
C14_Witness ==
    \E r \in Reqs :
       /\ reqs[r].pc = "award"
       /\ \E a \in reqs[r].todo :
             ~ UqUserAchievement(userAchievements, reqs[r].user_id, a)

\* the achievements for which the step adds a row for user u
Awarded(u) ==
    {x.achievement_id : x \in {y \in userAchievements' \ userAchievements : y.user_id = u}}

\* C15: one run of the evaluator for a user awards an achievement if and
\* only if the user had not earned it before the run and the user's
\* statistic of its condition type is >= its threshold; after the run every
\* such achievement is earned, and no other user gets a row.
C15_AwardIff ==
    [][\A r \in Reqs :
          (reqs[r].pc = "ach" /\ reqs'[r].pc = "idle" /\ response' # "none") =>
             LET u == reqs[r].user_id IN
             /\ \A a \in DOMAIN Achievements :
                   a \in Awarded(u) <=>
                      (/\ a \notin EarnedIds(u)
                       /\ StatMap(u)[Achievements[a].condition_type]
                             >= Achievements[a].condition_value)
             /\ \A a \in Qualifying(u) :
                   \E x \in userAchievements' : x.user_id = u /\ x.achievement_id = a
             /\ \A o \in Users \ {u} : Awarded(o) = {}
             /\ response' = "ok"]_vars

\* a run after a check-in awarded 'First Check-in' at its threshold of 1,
\* 'Week Warrior' and 'Centurion' in one go
C15_Witness ==
    /\ response = "ok"
    /\ inserted = 1
    /\ \A a \in {1, 2, 5} : \E x \in userAchievements : x.user_id = 1 /\ x.achievement_id = a
    /\ ~ \E x \in userAchievements : x.achievement_id = 3

\* user u holds a 'challenge_completed' notification for challenge c
ToldCompleted(u, c) == CopiesIn(Notif(u, "challenge_completed", c), notifications) >= 1

\* C16: when the lifecycle check marks a challenge completed, the winner it
\* records is a member of that challenge whose points are >= the points of
\* every member at that moment.
C16_WinnerHasMostPoints ==
    [][\A c \in DOMAIN challenges :
          (~ challenges[c].is_completed /\ challenges'[c].is_completed) =>
             \E w \in MembersOf(c) :
                /\ w.user_id = challenges'[c].winner_id
                /\ \A m \in MembersOf(c) : w.points >= m.points]_vars

\* a completed challenge of two members whose winner is the user who joined
\* it and has strictly more points than its creator
C16_Witness ==
    \E c \in DOMAIN challenges :
       /\ challenges[c].is_completed
       /\ challenges[c].winner_id # challenges[c].creator_id
       /\ \E w, m \in MembersOf(c) :
             /\ w.user_id = challenges[c].winner_id
             /\ m.user_id = challenges[c].creator_id
             /\ w.points > m.points

\* C17: when a member's dashboard access ends, every challenge the user is
\* a member of whose end date is before the user's date of that access is
\* completed.
C17_CompletedOnAccess ==
    [][\A r \in Reqs :
          (reqs[r].pc \in {"life", "complete", "notify"} /\ reqs'[r].pc = "idle") =>
             \A c \in DOMAIN challenges :
                (/\ MemberRows(c, reqs[r].user_id) # {}
                 /\ challenges[c].end_date # NoDate
                 /\ challenges[c].end_date < reqs[r].today)
                => challenges'[c].is_completed]_vars

\* one access of a member of two ended challenges has just completed both
C17_Witness ==
    /\ response = "dashboard"
    /\ \A r \in Reqs : reqs[r].pc = "idle"
    /\ \E u \in Users :
          \A c \in {1, 2} : /\ MemberRows(c, u) # {}
                            /\ challenges[c].is_completed
                            /\ challenges[c].end_date = now - 1
                            /\ ToldCompleted(u, c)

\* C18: completion happens exactly once: a completed challenge stays
\* completed and keeps its winner, and no member is sent a second
\* 'challenge_completed' notification for it, in any interleaving of the
\* members' lifecycle checks.
C18_CompletedOnce ==
    /\ [][\A c \in DOMAIN challenges :
             challenges[c].is_completed =>
                /\ challenges'[c].is_completed
                /\ challenges'[c].winner_id = challenges[c].winner_id]_vars
    /\ [](\A u \in Users, c \in DOMAIN challenges :
             CopiesIn(Notif(u, "challenge_completed", c), notifications) <= 1)

\* C19: whenever a challenge is marked completed, every member of it is
\* sent a 'challenge_completed' notification for it.
C19_EveryMemberNotified ==
    \A c \in {1, 2}, u \in Users :
       (/\ c \in DOMAIN challenges
        /\ challenges[c].is_completed
        /\ MemberRows(c, u) # {}) ~> ToldCompleted(u, c)

\* a completed challenge with two members, each of them notified
C19_Witness ==
    \E c \in DOMAIN challenges :
       /\ challenges[c].is_completed
       /\ Cardinality(MembersOf(c)) = 2
       /\ \A m \in MembersOf(c) : ToldCompleted(m.user_id, c)
       /\ \A r \in Reqs : reqs[r].pc = "idle"

\* C21: a failed upload to the image host is surfaced to the caller as a
\* failure of the request: a check-in whose upload failed does not end in
\* the success response, and a profile-photo request whose upload failed is
\* answered with the upload failure and changes nothing.
C21_UploadFailureSurfaced ==
    /\ [][\A r \in Reqs :
             (reqs[r].upload_failed /\ reqs'[r].pc = "idle") => response' # "ok"]_vars
    /\ [][\A u \in Users, f \in Files :
             (/\ f # NoFile /\ AllowedFile(f) /\ ValidateImageFile(f)
              /\ cloudinary_configured
              /\ UploadProfilePhoto(u, f, FALSE))
             => (response' = "upload_failed" /\ users' = users)]_vars

\* the dates of the member's Checkin rows, and the number of consecutive
\* days with a row that end at the latest of them
CheckinDates(c, u) ==
    {k.checkin_date : k \in {x \in BagToSet(checkins) : x.challenge_id = c /\ x.user_id = u}}

LatestDate(c, u) == CHOOSE d \in CheckinDates(c, u) : \A e \in CheckinDates(c, u) : e <= d

RECURSIVE DaysInARow(_, _, _)
DaysInARow(c, u, d) ==
    IF d \in CheckinDates(c, u) THEN 1 + DaysInARow(c, u, d - 1) ELSE 0

\* C22: a membership's current streak is the number of consecutive calendar
\* days with a Checkin row that end at the member's latest check-in date:
\* exactly that number while no freeze was ever consumed, and at least that
\* number when freezes covered gaps.
C22_StreakCountsDays ==
    \A m \in members :
       CheckinDates(m.challenge_id, m.user_id) # {} =>
          LET run == DaysInARow(m.challenge_id, m.user_id,
                                LatestDate(m.challenge_id, m.user_id))
          IN IF m.freezes_used = 0 THEN m.current_streak = run
             ELSE m.current_streak >= run

\* C23: a check-in continues the streak by consuming a freeze only when
\* exactly one calendar day without a check-in lies between the member's
\* previous check-in date and the new check-in date.
C23_FreezeCoversOneDay ==
    [][\A r \in Reqs :
          (Committed(r) /\ reqs'[r].freeze_used) =>
             LET c == reqs[r].challenge_id
                 u == reqs[r].user_id
             IN /\ CheckinDates(c, u) # {}
                /\ LatestDate(c, u) = reqs[r].today - 2]_vars

\* C28: within one real calendar day a member checks in to a challenge
\* successfully at most once, whatever client_date the requests carry.
\* Under SpecOneDay no Checkin row exists when the day begins and the date
\* never changes, so every row is a successful check-in of that day.
C28_OncePerRealDay ==
    \A c \in DOMAIN challenges, u \in Users :
       CountRows(checkins, {k \in BagToSet(checkins) :
                               k.challenge_id = c /\ k.user_id = u}) <= 1

\* C29: no check-in is accepted, and no points are earned, in a challenge
\* whose end date lies before the date of the check-in, whether or not a
\* lifecycle check has marked the challenge completed.
C29_NoCheckinAfterEnd ==
    [][\A r \in Reqs :
          Committed(r) =>
             LET ch == challenges[reqs[r].challenge_id] IN
             ch.end_date = NoDate \/ reqs[r].today <= ch.end_date]_vars

\* C30: the admin delete removes one Checkin row and the reactions tied to
\* it and nothing else: every other reaction, the memberships (points,
\* streaks, freeze balance, freezes_used), the users' total_points and the
\* earned achievements stay as they were; a non-admin's request deletes
\* nothing.
C30_DeleteFrame ==
    [][/\ response' = "deleted" =>
             /\ \E k \in BagToSet(checkins) :
                   /\ checkins' = checkins (-) SetToBag({k})
                   /\ reactions' = {x \in reactions : x.checkin # k}
             /\ UNCHANGED <<members, users, userAchievements, challenges,
                            notifications, nudges>>
       /\ response' = "unauthorized" => UNCHANGED <<db, reactions>>]_vars

\* the admin has just deleted a check-in that had a reaction; the reaction
\* to the other check-in is still there, and so are the points of both
C30_Witness ==
    /\ response = "deleted"
    /\ BagCardinality(checkins) = 1
    /\ Cardinality(reactions) = 1
    /\ \A m \in members : m.points > 0
    /\ \E u \in Users : users[u].total_points > 0 /\ StatMap(u).total_checkins = 0

\* C24: the Google callback links an identity to an existing account, or
\* opens a session for an account that does not carry the identity, only
\* when the profile's email is that account's email and the account has no
\* Google identity yet; otherwise the account's google_id is unchanged and
\* no session for it is opened.
C24_LinkOnlyOnEmailMatch ==
    [][\A google_id \in GoogleIds, email \in ProfileEmails :
          AuthGoogleCallback(google_id, email) =>
             \A u \in DOMAIN users :
                (/\ users[u].google_id # google_id
                 /\ \/ users'[u].google_id # users[u].google_id
                    \/ session' = u /\ response' # "error")
                => /\ users[u].email = email
                   /\ users[u].google_id = NoId]_vars

\* C25: in every reachable state, also after check-ins of one user in
\* different challenges that ran side by side, the user's total_points is
\* the sum of the points of the user's memberships.
C25_TotalIsSumOfMemberships ==
    \A u \in Users :
        users[u].total_points = SumPoints({m \in members : m.user_id = u})

\* C26: freezes are conserved.  Every committed check-in changes
\* streak_freezes + freezes_used of its membership by exactly the freezes
\* it earned, and the new balance is the old one plus the freezes earned
\* minus the freeze spent: the max(0, ...) clamp changes no value.
C26_FreezesConserved ==
    [][\A r \in Reqs :
          (reqs[r].pc = "commit" /\ reqs'[r].pc = "ach") =>
             LET q == reqs'[r]
                 old == CHOOSE m \in members : m.id = q.membership.id
                 new == CHOOSE m \in members' : m.id = q.membership.id
                 spent == IF q.freeze_used THEN 1 ELSE 0
             IN /\ new.streak_freezes + new.freezes_used
                      = old.streak_freezes + old.freezes_used + q.freeze_earned
                /\ new.streak_freezes = old.streak_freezes + q.freeze_earned - spent]_vars

\* a check-in that spent a freeze and earned one has been committed
C26_Witness ==
    \E r \in Reqs :
       /\ reqs[r].pc = "ach"
       /\ reqs[r].freeze_used
       /\ reqs[r].freeze_earned = 1
       /\ \E m \in members : /\ m.id = reqs[r].membership.id
                              /\ m.freezes_used = 1
                              /\ m.streak_freezes = reqs[r].membership.streak_freezes

\* C27: once a challenge is completed, whatever the interleaving of
\* check-in, join and dashboard requests, no step adds a Checkin row for it,
\* none adds a membership of it or changes one, and the recorded winner
\* still has at least the points of every member.
C27_FrozenAfterCompletion ==
    [][\A c \in DOMAIN challenges :
          challenges[c].is_completed =>
             /\ \A k \in BagToSet(checkins') :
                   k.challenge_id = c =>
                      CopiesIn(k, checkins') <= CopiesIn(k, checkins)
             /\ MembersOf(c)' = MembersOf(c)
             /\ \A w \in MembersOf(c)' :
                   w.user_id = challenges'[c].winner_id =>
                      \A m \in MembersOf(c)' : w.points >= m.points]_vars

====
